---- MODULE Spec2Model ----
(***************************************************************************)
(* Transfer handlers of the central ledger (src/handlers/transfers):       *)
(* the prepare, fulfil and transfer consumer callbacks, stepped at their   *)
(* await points (store call, offset commit, produce), over a transfer      *)
(* store, a clock and the external position / timeout subsystems.          *)
(***************************************************************************)
EXTENDS Integers, Sequences, FiniteSets, Bags, TLC

\* ------------------------------------------------------------------ bounds
MaxDeliveries == 2
MaxFailures == 1
MaxTime == 1

\* ------------------------------------------------- module-level error codes
errorGenericCode == 3100
errorModifiedReqCode == 3106
errorInternalCode == 2001
errorTransferExpCode == 3303

\* ------------------------------------------------------------ data domains
TransferIds == {"t1"}
Participants == {"dfspA", "dfspB"}
PrepareWorkers == {"dfspA"}
Fulfilments == {1, 2}
ExpirationDates == {1}
FinalStates == {"COMMITTED", "ABORTED"}
InvalidStates == {"INVALID", "ABORTED"}

\* SHA-256 on the small fulfilment domain: injective, never the identity
Sha256(f) == f + 10

\* Validator.validateFulfilCondition(fulfilment, condition)
validateFulfilCondition(fulfilment, condition) == Sha256(fulfilment) = condition

PreparePayloads ==
  [transferId : TransferIds, payerFsp : {"dfspA"}, payeeFsp : {"dfspB"},
   amount : {0, 100, 101}, condition : {Sha256(1)},
   expirationDate : ExpirationDates]

\* Validator.validateByName(payload): schema and rule checks of the payload
validateByName(payload) ==
  [validationPassed |-> payload.amount > 0,
   reasons |-> IF payload.amount > 0 THEN "" ELSE "amount"]

\* Utility.transformAccountToTopicName / transformGeneralTopicName
transformAccountToTopicName(participant, type, action) ==
  <<"topic", participant, type, action>>

transformGeneralTopicName(type, action) == <<"topic", "general", type, action>>

AllTopics ==
  {transformAccountToTopicName(p, "transfer", "prepare") : p \in Participants}
    \cup {transformGeneralTopicName("transfer", "fulfil"),
          transformGeneralTopicName("transfer", "transfer")}

\* ------------------------------------------------------------------- store
NoTransfer ==
  [exists |-> FALSE, transferState |-> "NONE", condition |-> 0,
   expirationDate |-> 0, payerFsp |-> "", payeeFsp |-> "", valid |-> FALSE]

NoHash == <<>>

\* PayloadFingerprint: the canonical fields, in order
Fingerprint(payload) ==
  <<payload.transferId, payload.payerFsp, payload.payeeFsp, payload.amount,
    payload.condition, payload.expirationDate>>

\* TransferService.validateDuplicateHash: atomic insert-if-absent
validateDuplicateHash(h, payload) ==
  LET old == h[payload.transferId]
      fp == Fingerprint(payload)
  IN  [existsMatching |-> old # NoHash /\ old = fp,
       existsNotMatching |-> old # NoHash /\ old # fp,
       hashes |-> IF old = NoHash THEN [h EXCEPT ![payload.transferId] = fp]
                  ELSE h]

\* TransferService.getTransferStateChange: {enumeration} | null
getTransferStateChange(tr, transferId) ==
  IF tr[transferId].exists THEN tr[transferId].transferState ELSE "NULL"

\* TransferService.getById: Transfer | null (exists = FALSE)
getById(tr, transferId) == tr[transferId]

\* TransferService.prepare: the row written for a payload
PreparedRow(payload, valid, invalidState) ==
  [exists |-> TRUE,
   transferState |-> IF valid THEN "RECEIVED" ELSE invalidState,
   condition |-> payload.condition,
   expirationDate |-> payload.expirationDate,
   payerFsp |-> payload.payerFsp, payeeFsp |-> payload.payeeFsp,
   valid |-> valid]

\* TransferService.fulfil: the state change RESERVED -> COMMITTED, written
\* atomically; the caller has read the transfer as RESERVED
StoreFulfil(tr, transferId) ==
  [tr EXCEPT ![transferId].transferState = "COMMITTED"]

\* TransferService.reject: the state change RESERVED -> ABORTED
StoreReject(tr, transferId) ==
  [tr EXCEPT ![transferId].transferState = "ABORTED"]

\* ---------------------------------------------------------------- messages
Ev(op, type, action, status, code, to, snapshot, ok) ==
  [op |-> op, type |-> type, action |-> action, status |-> status,
   code |-> code, to |-> to, snapshot |-> snapshot, ok |-> ok]

StoreEv(name, arg, ok) == Ev("store", name, arg, "", 0, "", "", ok)

CommitEv(ok) == Ev("commit", "", "", "", 0, "", "", ok)

\* Utility.produceGeneralMessage(NOTIFICATION, action, message, failure state)
\* with payload Utility.createPrepareErrorStatus(code, ...)
NotifyFailure(action, code) ==
  Ev("produce", "notification", action, "failure", code, "general", "", TRUE)

\* Utility.produceGeneralMessage(NOTIFICATION, action, message, SUCCESS)
NotifySuccess(action, snapshot) ==
  Ev("produce", "notification", action, "success", 0, "general", snapshot, TRUE)

\* Utility.produceParticipantMessage(participant, POSITION, action, message, SUCCESS)
PositionMsg(participant, action) ==
  Ev("produce", "position", action, "success", 0, participant, "", TRUE)

NoOut == Ev("none", "", "", "", 0, "", "", TRUE)

Failed(e) == [e EXCEPT !.ok = FALSE]

\* the POSITION topics keep what was produced to them; a NOTIFICATION message
\* is handed to the notification subsystem and is kept in the handler's trace
Produce(topics, e) ==
  IF e.type = "position" THEN topics (+) SetToBag({e}) ELSE topics

VARIABLES hashes, transfers, errorLog, now, autoCommit, consumers,
          prep, ful, rtr, reg, produced, failures, deliveries

vars == <<hashes, transfers, errorLog, now, autoCommit, consumers,
          prep, ful, rtr, reg, produced, failures, deliveries>>

storeVars == <<hashes, transfers, errorLog>>


\* ------------------------------------------------ consumer commit discipline
\* Kafka.Consumer.isConsumerAutoCommitEnabled(kafkaTopic)
isConsumerAutoCommitEnabled(kind) == autoCommit[kind]

\* ThenCommit with the commitMessageSync call left out
ThenCommit_NoCommit(kind, cont) == cont

\* `if (!isConsumerAutoCommitEnabled(topic)) await consumer.commitMessageSync(message)`
\* followed by the step `cont`: in auto-commit mode the commit is skipped
ThenCommit(kind, cont) ==
  IF isConsumerAutoCommitEnabled(kind) THEN cont ELSE "commit"

\* ----------------------------------------------------------- prepare handler
NoPayload ==
  [transferId |-> "", payerFsp |-> "", payeeFsp |-> "", amount |-> 0,
   condition |-> 0, expirationDate |-> 0]

NoPrepareMsg == [from |-> "", payload |-> NoPayload]

PrepareMsgs(w) == [from : {w}, payload : PreparePayloads]

IdlePrep ==
  [pc |-> "idle", msg |-> NoPrepareMsg, existsMatching |-> FALSE,
   existsNotMatching |-> FALSE, path |-> "", validationPassed |-> FALSE,
   cont |-> "", out |-> NoOut, trace |-> <<>>, commits |-> 0,
   rowAtStart |-> FALSE]

\* lines 99-105: topic from message.value.from, consumer lookup
PrepareBegin(w, m) ==
  LET kafkaTopic == transformAccountToTopicName(m.from, "transfer", "prepare")
      t == m.payload.transferId
  IN  [IdlePrep EXCEPT
         !.msg = m,
         !.pc = IF kafkaTopic \in consumers THEN "dupcheck" ELSE "done",
         !.path = IF kafkaTopic \in consumers THEN "" ELSE "NO_CONSUMER",
         !.rowAtStart = transfers[t].exists /\ transfers[t].valid
                          /\ hashes[t] = Fingerprint(m.payload)]

\* AfterDupCheck without the existsNotMatching branch of line 143
AfterDupCheck_IgnoreNotMatching(existsMatching, existsNotMatching) ==
  IF existsMatching THEN "MATCHING" ELSE "NEW"

\* lines 110, 143, 154: what the duplicate check's answer selects
AfterDupCheck(existsMatching, existsNotMatching) ==
  IF existsMatching THEN "MATCHING"
  ELSE IF existsNotMatching THEN "MODIFIED"
  ELSE "NEW"

\* AfterGetState without the in-progress branch of line 137
AfterGetState_NoInFlight(stateEnum, existsNotMatching) ==
  IF stateEnum = "NULL" THEN "ANOMALY"
  ELSE IF stateEnum \in {"COMMITTED", "ABORTED"} THEN "FINALIZED"
  ELSE IF existsNotMatching THEN "MODIFIED"
  ELSE "UNKNOWN_STATE"

\* AfterGetState with RECEIVED, the state no longer in the seeds (line 136),
\* dropped from the in-progress branch of line 137
AfterGetState_ReservedOnly(stateEnum, existsNotMatching) ==
  IF stateEnum = "NULL" THEN "ANOMALY"
  ELSE IF stateEnum \in {"COMMITTED", "ABORTED"} THEN "FINALIZED"
  ELSE IF stateEnum = "RESERVED" THEN "IN_FLIGHT"
  ELSE IF existsNotMatching THEN "MODIFIED"
  ELSE "UNKNOWN_STATE"

\* lines 119-154: what the stored state of a matching duplicate selects
AfterGetState(stateEnum, existsNotMatching) ==
  IF stateEnum = "NULL" THEN "ANOMALY"
  ELSE IF stateEnum \in {"COMMITTED", "ABORTED"} THEN "FINALIZED"
  ELSE IF stateEnum \in {"RECEIVED", "RESERVED"} THEN "IN_FLIGHT"
  ELSE IF existsNotMatching THEN "MODIFIED"
  ELSE "UNKNOWN_STATE"

\* PrepareSuccessOut addressed to the payee
PrepareSuccessOut_ToPayee(payload) == PositionMsg(payload.payeeFsp, "prepare")

\* line 178: the message produced for a stored, valid prepare
PrepareSuccessOut(payload) == PositionMsg(payload.payerFsp, "prepare")

\* lines 169-170 and 194-195: the message produced when store prepare raises
PrepareStoreErrorOut == NotifyFailure("prepare", errorInternalCode)

\* lines 208-209: the message produced for a stored, invalid prepare
PrepareInvalidOut == NotifyFailure("prepare", errorGenericCode)

\* lines 149-150: the message produced for a modified request
PrepareModifiedOut == NotifyFailure("prepare", errorModifiedReqCode)

\* lines 122-123: the message produced when no state is found
PrepareAnomalyOut == NotifyFailure("prepare", errorGenericCode)

\* PrepareDuplicateOut with the action of the other notifications
PrepareDuplicateOut_AsPrepare(record) ==
  NotifySuccess("prepare", record.transferState)

\* lines 131-133: the message produced for a finalized replay
PrepareDuplicateOut(record) ==
  NotifySuccess("prepare-duplicate", record.transferState)

\* the consumer calls back with a message of its topic, or with a bus error,
\* on which the callback throws at once (lines 86-105)
PrepareDeliver(w) ==
  /\ prep[w].pc = "idle"
  /\ deliveries < MaxDeliveries
  /\ \E m \in PrepareMsgs(w), error \in BOOLEAN :
       IF error
         THEN /\ failures < MaxFailures
              /\ failures' = failures + 1
              /\ prep' = [prep EXCEPT ![w] =
                           [IdlePrep EXCEPT !.msg = m, !.pc = "thrown",
                                            !.path = "BUS_ERROR"]]
         ELSE /\ failures' = failures
              /\ prep' = [prep EXCEPT ![w] = PrepareBegin(w, m)]
  /\ deliveries' = deliveries + 1
  /\ UNCHANGED <<storeVars, now, autoCommit, consumers, reg, rtr, ful, produced>>

\* line 108: TransferService.validateDuplicateHash(payload)
PrepareDupCheck(w) ==
  /\ prep[w].pc = "dupcheck"
  /\ LET r == validateDuplicateHash(hashes, prep[w].msg.payload)
         sel == AfterDupCheck(r.existsMatching, r.existsNotMatching)
     IN  /\ hashes' = r.hashes
         /\ prep' = [prep EXCEPT
              ![w].existsMatching = r.existsMatching,
              ![w].existsNotMatching = r.existsNotMatching,
              ![w].trace = Append(@, StoreEv("validateDuplicateHash", "", TRUE)),
              ![w].path = IF sel = "MATCHING" THEN "" ELSE sel,
              ![w].cont = IF sel = "MATCHING" THEN "getState"
                          ELSE IF sel = "MODIFIED" THEN "produce" ELSE "",
              ![w].out = IF sel = "MODIFIED" THEN PrepareModifiedOut ELSE NoOut,
              ![w].pc = IF sel = "MATCHING" THEN ThenCommit("prepare", "getState")
                        ELSE IF sel = "MODIFIED"
                             THEN ThenCommit("prepare", "produce")
                        ELSE "validate"]
  /\ UNCHANGED <<transfers, errorLog, now, autoCommit, consumers, reg, rtr, ful,
                 produced, failures, deliveries>>

\* lines 114, 146, 164, 174, 189, 199: consumer.commitMessageSync(message)
PrepareCommit(w) ==
  /\ prep[w].pc = "commit"
  /\ prep' = [prep EXCEPT
       ![w].trace = Append(@, CommitEv(TRUE)),
       ![w].commits = @ + 1,
       ![w].pc = prep[w].cont]
  /\ UNCHANGED <<storeVars, now, autoCommit, consumers, reg, rtr, ful, produced,
                 failures, deliveries>>

\* line 117: TransferService.getTransferStateChange(payload.transferId)
PrepareGetState(w) ==
  /\ prep[w].pc = "getState"
  /\ LET st == getTransferStateChange(transfers, prep[w].msg.payload.transferId)
         sel == AfterGetState(st, prep[w].existsNotMatching)
     IN  prep' = [prep EXCEPT
           ![w].trace = Append(@, StoreEv("getTransferStateChange", st, TRUE)),
           ![w].path = sel,
           ![w].out = IF sel = "ANOMALY" THEN PrepareAnomalyOut
                      ELSE IF sel = "MODIFIED" THEN PrepareModifiedOut
                      ELSE NoOut,
           ![w].cont = IF sel = "MODIFIED" THEN "produce" ELSE "",
           ![w].pc = CASE sel = "ANOMALY" -> "produce"
                       [] sel = "FINALIZED" -> "getById"
                       [] sel = "IN_FLIGHT" -> "done"
                       [] sel = "MODIFIED" -> ThenCommit("prepare", "produce")
                       [] OTHER -> "validate"]
  /\ UNCHANGED <<storeVars, now, autoCommit, consumers, reg, rtr, ful, produced,
                 failures, deliveries>>

\* line 131: TransferService.getById(payload.transferId)
PrepareGetById(w) ==
  /\ prep[w].pc = "getById"
  /\ LET rec == getById(transfers, prep[w].msg.payload.transferId)
     IN  prep' = [prep EXCEPT
           ![w].trace = Append(@, StoreEv("getById", "", TRUE)),
           ![w].out = PrepareDuplicateOut(rec),
           ![w].pc = "produce"]
  /\ UNCHANGED <<storeVars, now, autoCommit, consumers, reg, rtr, ful, produced,
                 failures, deliveries>>

\* PrepareStoreArgs storing every payload as valid
PrepareStoreArgs_AlwaysValid(payload) == [valid |-> TRUE, reason |-> ""]

\* lines 154-155, 160 and 185: the arguments of TransferService.prepare:
\* prepare(payload) when validation passed, prepare(payload, reasons, false)
\* when it failed
PrepareStoreArgs(payload) ==
  LET r == validateByName(payload)
  IN  [valid |-> r.validationPassed,
       reason |-> IF r.validationPassed THEN "" ELSE r.reasons]

\* lines 154-160 and 185: Validator.validateByName, then TransferService.prepare
\* (payload, reasons, validationPassed), which writes the row
PrepareStore(w) ==
  /\ prep[w].pc = "validate"
  /\ LET payload == prep[w].msg.payload
         v == validateByName(payload).validationPassed
     IN  /\ ~transfers[payload.transferId].exists
         /\ \E st \in InvalidStates :
              transfers' = [transfers EXCEPT
                 ![payload.transferId] =
                    PreparedRow(payload, PrepareStoreArgs(payload).valid, st)]
         /\ prep' = [prep EXCEPT
              ![w].validationPassed = v,
              ![w].trace = Append(@, StoreEv("prepare",
                                  IF PrepareStoreArgs(payload).valid
                                    THEN "valid" ELSE "invalid", TRUE)),
              ![w].cont = IF v THEN "produce" ELSE "logError",
              ![w].out = IF v THEN PrepareSuccessOut(payload) ELSE NoOut,
              ![w].pc = ThenCommit("prepare", IF v THEN "produce" ELSE "logError")]
  /\ UNCHANGED <<hashes, errorLog, now, autoCommit, consumers, reg, rtr, ful, produced,
                 failures, deliveries>>

\* lines 161-172 and 186-197: TransferService.prepare raises and is caught
PrepareStoreRaises(w) ==
  /\ prep[w].pc = "validate"
  /\ LET payload == prep[w].msg.payload
         v == validateByName(payload).validationPassed
     IN  /\ \/ transfers[payload.transferId].exists /\ failures' = failures
            \/ failures < MaxFailures /\ failures' = failures + 1
         /\ prep' = [prep EXCEPT
              ![w].validationPassed = v,
              ![w].trace = Append(@, StoreEv("prepare",
                                  IF PrepareStoreArgs(payload).valid
                                    THEN "valid" ELSE "invalid", FALSE)),
              ![w].cont = "produce",
              ![w].out = PrepareStoreErrorOut,
              ![w].pc = ThenCommit("prepare", "produce")]
  /\ UNCHANGED <<storeVars, now, autoCommit, consumers, reg, rtr, ful, produced,
                 deliveries>>

\* line 203: TransferService.logTransferError(transferId, 3100, reasons)
PrepareLogError(w) ==
  /\ prep[w].pc = "logError"
  /\ errorLog' = [errorLog EXCEPT ![prep[w].msg.payload.transferId] =
                    @ \cup {errorGenericCode}]
  /\ prep' = [prep EXCEPT
       ![w].trace = Append(@, StoreEv("logTransferError", "", TRUE)),
       ![w].out = PrepareInvalidOut,
       ![w].pc = "produce"]
  /\ UNCHANGED <<hashes, transfers, now, autoCommit, consumers, reg, rtr, ful,
                 produced, failures, deliveries>>

\* lines 123, 133, 150, 170, 178, 195, 209: Utility.produce...Message
PrepareProduce(w) ==
  /\ prep[w].pc = "produce"
  /\ produced' = Produce(produced, prep[w].out)
  /\ prep' = [prep EXCEPT ![w].trace = Append(@, prep[w].out), ![w].pc = "done"]
  /\ UNCHANGED <<storeVars, now, autoCommit, consumers, reg, rtr, ful,
                 failures, deliveries>>

\* lines 212-215: a store call outside the try of store prepare, a commit or
\* a produce raises: the handler logs and rethrows
PrepareThrows(w) ==
  /\ prep[w].pc \in {"dupcheck", "commit", "getState", "getById", "logError",
                     "produce"}
  /\ failures < MaxFailures
  /\ failures' = failures + 1
  /\ prep' = [prep EXCEPT
       ![w].trace = Append(@,
          CASE prep[w].pc = "commit" -> CommitEv(FALSE)
            [] prep[w].pc = "produce" -> Failed(prep[w].out)
            [] prep[w].pc = "dupcheck" -> StoreEv("validateDuplicateHash", "", FALSE)
            [] prep[w].pc = "getState" -> StoreEv("getTransferStateChange", "", FALSE)
            [] prep[w].pc = "getById" -> StoreEv("getById", "", FALSE)
            [] OTHER -> StoreEv("logTransferError", "", FALSE)),
       ![w].pc = "thrown"]
  /\ UNCHANGED <<storeVars, now, autoCommit, consumers, reg, rtr, ful, produced,
                 deliveries>>

\* the callback returned true, or threw with the offset already committed
\* (or auto-committed): the consumer moves on
PrepareReturn(w) ==
  /\ \/ prep[w].pc = "done"
     \/ prep[w].pc = "thrown"
          /\ (prep[w].commits > 0 \/ isConsumerAutoCommitEnabled("prepare"))
  /\ prep' = [prep EXCEPT ![w] = IdlePrep]
  /\ UNCHANGED <<storeVars, now, autoCommit, consumers, reg, rtr, ful, produced,
                 failures, deliveries>>

\* the callback threw and the offset is uncommitted: the message is redelivered
PrepareRedeliver(w) ==
  /\ prep[w].pc = "thrown"
  /\ prep[w].commits = 0
  /\ ~isConsumerAutoCommitEnabled("prepare")
  /\ prep' = [prep EXCEPT ![w] = PrepareBegin(w, prep[w].msg)]
  /\ UNCHANGED <<storeVars, now, autoCommit, consumers, reg, rtr, ful, produced,
                 failures, deliveries>>


\* ------------------------------------------------------------ fulfil handler
NoFulfilMsg == [id |-> "", type |-> "", action |-> "", fulfilment |-> 0]

FulfilMsgs ==
  [id : TransferIds, type : {"fulfil"}, action : {"commit", "reject"},
   fulfilment : Fulfilments]
    \cup [id : TransferIds, type : {"fulfil"}, action : {"abort"}, fulfilment : {1}]
    \cup [id : TransferIds, type : {"prepare"}, action : {"commit"}, fulfilment : {1}]

IdleFul ==
  [pc |-> "idle", msg |-> NoFulfilMsg, existing |-> NoTransfer, path |-> "",
   checkedAt |-> 0, cont |-> "", out |-> NoOut, trace |-> <<>>, commits |-> 0]

\* FulfilAccepts without the test of the action of lines 241-242
FulfilAccepts_AnyAction(m) == m.type = "fulfil"

\* lines 240-242: the event type and action the handler accepts
FulfilAccepts(m) ==
  m.type = "fulfil" /\ (m.action = "commit" \/ m.action = "reject")

\* FulfilValidate without the fulfilment check of line 253
FulfilValidate_NoFulfilmentCheck(m, existingTransfer, date) ==
  IF ~existingTransfer.exists THEN "notFound"
  ELSE IF existingTransfer.transferState # "RESERVED" THEN "nonReservedState"
  ELSE IF existingTransfer.expirationDate <= date THEN "transferExpired"
  ELSE "validationPassed"

\* FulfilValidate without the state check of line 261
FulfilValidate_NoStateCheck(m, existingTransfer, date) ==
  IF ~existingTransfer.exists THEN "notFound"
  ELSE IF ~validateFulfilCondition(m.fulfilment, existingTransfer.condition)
    THEN "invalidFulfilment"
  ELSE IF existingTransfer.expirationDate <= date THEN "transferExpired"
  ELSE "validationPassed"

\* FulfilValidate with the state check before the fulfilment check
FulfilValidate_StateFirst(m, existingTransfer, date) ==
  IF ~existingTransfer.exists THEN "notFound"
  ELSE IF existingTransfer.transferState # "RESERVED" THEN "nonReservedState"
  ELSE IF ~validateFulfilCondition(m.fulfilment, existingTransfer.condition)
    THEN "invalidFulfilment"
  ELSE IF existingTransfer.expirationDate <= date THEN "transferExpired"
  ELSE "validationPassed"

\* FulfilValidate with the expiry check of line 269 before the other checks
FulfilValidate_ExpiryFirst(m, existingTransfer, date) ==
  IF ~existingTransfer.exists THEN "notFound"
  ELSE IF existingTransfer.expirationDate <= date THEN "transferExpired"
  ELSE IF ~validateFulfilCondition(m.fulfilment, existingTransfer.condition)
    THEN "invalidFulfilment"
  ELSE IF existingTransfer.transferState # "RESERVED" THEN "nonReservedState"
  ELSE "validationPassed"

\* FulfilValidate without the expiry check of line 269
FulfilValidate_NoExpiryCheck(m, existingTransfer, date) ==
  IF ~existingTransfer.exists THEN "notFound"
  ELSE IF ~validateFulfilCondition(m.fulfilment, existingTransfer.condition)
    THEN "invalidFulfilment"
  ELSE IF existingTransfer.transferState # "RESERVED" THEN "nonReservedState"
  ELSE "validationPassed"

\* lines 245-277: the checks on the stored transfer, in the code's order
FulfilValidate(m, existingTransfer, date) ==
  IF ~existingTransfer.exists THEN "notFound"
  ELSE IF ~validateFulfilCondition(m.fulfilment, existingTransfer.condition)
    THEN "invalidFulfilment"
  ELSE IF existingTransfer.transferState # "RESERVED" THEN "nonReservedState"
  ELSE IF existingTransfer.expirationDate <= date THEN "transferExpired"
  ELSE "validationPassed"

\* lines 250, 258, 266, 274, 300: the error code put in the failure payload
FulfilErrorCode(path) ==
  CASE path = "notFound" -> errorInternalCode
    [] path = "invalidFulfilment" -> errorModifiedReqCode
    [] path = "nonReservedState" -> errorInternalCode
    [] path = "transferExpired" -> errorTransferExpCode
    [] OTHER -> errorInternalCode

\* lines 251, 259, 267, 275, 301: NOTIFICATION, action commit, state FAILURE
FulfilFailureOut(path) == NotifyFailure("commit", FulfilErrorCode(path))

\* FulfilSuccessOut addressing the reject to the payee as well
FulfilSuccessOut_ToPayee(m, existingTransfer) ==
  PositionMsg(existingTransfer.payeeFsp, m.action)

\* lines 284 and 291: POSITION commit to the payee, POSITION reject to the payer
FulfilSuccessOut(m, existingTransfer) ==
  IF m.action = "commit" THEN PositionMsg(existingTransfer.payeeFsp, "commit")
  ELSE PositionMsg(existingTransfer.payerFsp, "reject")

\* lines 231-242 and 295-302
FulfilBegin(m) ==
  LET kafkaTopic == transformGeneralTopicName("transfer", "fulfil")
  IN  IF kafkaTopic \notin consumers
        THEN [IdleFul EXCEPT !.msg = m, !.pc = "done", !.path = "NO_CONSUMER"]
      ELSE IF FulfilAccepts(m)
        THEN [IdleFul EXCEPT !.msg = m, !.pc = "getById"]
      ELSE [IdleFul EXCEPT
              !.msg = m, !.path = "invalidEventAction",
              !.out = FulfilFailureOut("invalidEventAction"),
              !.cont = "produce", !.pc = ThenCommit("fulfil", "produce")]

\* the consumer of the FULFIL topic calls back with a message, or with a bus
\* error, on which the callback throws at once (lines 218-242)
FulfilDeliver ==
  /\ ful.pc = "idle"
  /\ deliveries < MaxDeliveries
  /\ \E m \in FulfilMsgs, error \in BOOLEAN :
       IF error
         THEN /\ failures < MaxFailures
              /\ failures' = failures + 1
              /\ ful' = [IdleFul EXCEPT !.msg = m, !.pc = "thrown",
                                        !.path = "BUS_ERROR"]
         ELSE /\ failures' = failures
              /\ ful' = FulfilBegin(m)
  /\ deliveries' = deliveries + 1
  /\ UNCHANGED <<storeVars, now, autoCommit, consumers, reg, rtr, prep, produced>>

\* lines 243-278: TransferService.getById(transferId) and the checks on it,
\* the expiry check reading the clock
FulfilGetById ==
  /\ ful.pc = "getById"
  /\ LET existingTransfer == getById(transfers, ful.msg.id)
         sel == FulfilValidate(ful.msg, existingTransfer, now)
     IN  ful' = [ful EXCEPT
           !.existing = existingTransfer,
           !.path = sel,
           !.checkedAt = now,
           !.trace = Append(@, StoreEv("getById", "", TRUE)),
           !.out = IF sel = "validationPassed"
                     THEN FulfilSuccessOut(ful.msg, existingTransfer)
                   ELSE FulfilFailureOut(sel),
           !.cont = "produce",
           !.pc = IF sel = "validationPassed" THEN "store"
                  ELSE ThenCommit("fulfil", "produce")]
  /\ UNCHANGED <<storeVars, now, autoCommit, consumers, reg, rtr, prep, produced,
                 failures, deliveries>>

\* line 280: TransferService.fulfil(transferId, payload)
FulfilStoreFulfil ==
  /\ ful.pc = "store"
  /\ ful.msg.action = "commit"
  /\ transfers' = StoreFulfil(transfers, ful.msg.id)
  /\ ful' = [ful EXCEPT
       !.trace = Append(@, StoreEv("fulfil", "", TRUE)),
       !.pc = ThenCommit("fulfil", "produce")]
  /\ UNCHANGED <<hashes, errorLog, now, autoCommit, consumers, reg, rtr, prep,
                 produced, failures, deliveries>>

\* line 287: TransferService.reject(transferId, payload)
FulfilStoreReject ==
  /\ ful.pc = "store"
  /\ ful.msg.action # "commit"
  /\ transfers' = StoreReject(transfers, ful.msg.id)
  /\ ful' = [ful EXCEPT
       !.trace = Append(@, StoreEv("reject", "", TRUE)),
       !.pc = ThenCommit("fulfil", "produce")]
  /\ UNCHANGED <<hashes, errorLog, now, autoCommit, consumers, reg, rtr, prep,
                 produced, failures, deliveries>>

\* lines 248, 256, 264, 272, 282, 289, 298: consumer.commitMessageSync(message)
FulfilCommit ==
  /\ ful.pc = "commit"
  /\ ful' = [ful EXCEPT
       !.trace = Append(@, CommitEv(TRUE)),
       !.commits = @ + 1,
       !.pc = ful.cont]
  /\ UNCHANGED <<storeVars, now, autoCommit, consumers, reg, rtr, prep, produced,
                 failures, deliveries>>

\* lines 251, 259, 267, 275, 284, 291, 301: Utility.produce...Message
FulfilProduce ==
  /\ ful.pc = "produce"
  /\ produced' = Produce(produced, ful.out)
  /\ ful' = [ful EXCEPT !.trace = Append(@, ful.out), !.pc = "done"]
  /\ UNCHANGED <<storeVars, now, autoCommit, consumers, reg, rtr, prep,
                 failures, deliveries>>

\* lines 304-307: a store call, a commit or a produce raises: log and rethrow
FulfilThrows ==
  /\ ful.pc \in {"getById", "store", "commit", "produce"}
  /\ failures < MaxFailures
  /\ failures' = failures + 1
  /\ ful' = [ful EXCEPT
       !.trace = Append(@,
          CASE ful.pc = "commit" -> CommitEv(FALSE)
            [] ful.pc = "produce" -> Failed(ful.out)
            [] ful.pc = "getById" -> StoreEv("getById", "", FALSE)
            [] OTHER -> StoreEv(IF ful.msg.action = "commit" THEN "fulfil"
                                ELSE "reject", "", FALSE)),
       !.pc = "thrown"]
  /\ UNCHANGED <<storeVars, now, autoCommit, consumers, reg, rtr, prep, produced,
                 deliveries>>

\* the callback returned true, or threw with the offset already committed
FulfilReturn ==
  /\ \/ ful.pc = "done"
     \/ ful.pc = "thrown"
          /\ (ful.commits > 0 \/ isConsumerAutoCommitEnabled("fulfil"))
  /\ ful' = IdleFul
  /\ UNCHANGED <<storeVars, now, autoCommit, consumers, reg, rtr, prep, produced,
                 failures, deliveries>>

\* the callback threw and the offset is uncommitted: the message is redelivered
FulfilRedeliver ==
  /\ ful.pc = "thrown"
  /\ ful.commits = 0
  /\ ~isConsumerAutoCommitEnabled("fulfil")
  /\ ful' = FulfilBegin(ful.msg)
  /\ UNCHANGED <<storeVars, now, autoCommit, consumers, reg, rtr, prep, produced,
                 failures, deliveries>>

\* ------------------------------------------------------ transfer-event router
\* Utility.ENUMS.NOTIFICATION and Utility.ENUMS.EVENT: the generic
\* functionality and action names of the handlers' utility library
ENUMS_NOTIFICATION == "notification"

ENUMS_EVENT == "event"

\* String.prototype.toLowerCase on the strings of the message domain
toLowerCase(str) ==
  CASE str = "COMMIT" -> "commit"
    [] str = "SUCCESS" -> "success"
    [] OTHER -> str

NoTransferMsg == [action |-> "", status |-> ""]

TransferMsgs ==
  [action : {"prepare", "commit", "reject", "abort", "timeout-reserved",
             "COMMIT", "fulfil"},
   status : {"success", "failure", "SUCCESS"}]

IdleRtr ==
  [pc |-> "idle", msg |-> NoTransferMsg, path |-> "", out |-> NoOut,
   trace |-> <<>>, commits |-> 0]

\* lines 347, 361, 380, 399, 418: the action and status of a branch that
\* forwards
RouterForwards(m) ==
  /\ toLowerCase(m.action)
       \in {"prepare", "commit", "reject", "abort", "timeout-reserved"}
  /\ toLowerCase(m.status) = "success"

\* lines 354, 369, 388, 407, 426: the produceGeneralMessage call of a branch
RouterOut(m) ==
  IF toLowerCase(m.action) = "timeout-reserved"
    THEN Ev("produce", ENUMS_NOTIFICATION, ENUMS_EVENT, "success", 0,
            "general", "", TRUE)
  ELSE Ev("produce", "notification", toLowerCase(m.action), "success", 0,
          "general", "", TRUE)

\* lines 340-436: the branch taken and its consumer lookup
RouterBegin(m) ==
  LET kafkaTopic == transformGeneralTopicName("transfer", "transfer")
  IN  IF ~RouterForwards(m)
        THEN [IdleRtr EXCEPT !.msg = m, !.pc = "done", !.path = "unknownEvent"]
      ELSE IF kafkaTopic \notin consumers
        THEN [IdleRtr EXCEPT !.msg = m, !.pc = "done", !.path = "NO_CONSUMER"]
      ELSE [IdleRtr EXCEPT !.msg = m, !.pc = "produce", !.path = "forward",
                           !.out = RouterOut(m)]

\* the consumer of the TRANSFER topic calls back with a message, or with a bus
\* error, on which the callback throws at once (lines 325-330)
RouterDeliver ==
  /\ rtr.pc = "idle"
  /\ deliveries < MaxDeliveries
  /\ \E m \in TransferMsgs, error \in BOOLEAN :
       IF error
         THEN /\ failures < MaxFailures
              /\ failures' = failures + 1
              /\ rtr' = [IdleRtr EXCEPT !.msg = m, !.pc = "thrown",
                                        !.path = "BUS_ERROR"]
         ELSE /\ failures' = failures
              /\ rtr' = RouterBegin(m)
  /\ deliveries' = deliveries + 1
  /\ UNCHANGED <<storeVars, now, autoCommit, consumers, reg, prep, ful, produced>>

\* lines 354, 369, 388, 407, 426: Utility.produceGeneralMessage, and the test
\* of the commit mode that follows it
RouterProduce ==
  /\ rtr.pc = "produce"
  /\ produced' = Produce(produced, rtr.out)
  /\ rtr' = [rtr EXCEPT
       !.trace = Append(@, rtr.out),
       !.pc = IF isConsumerAutoCommitEnabled("transfer") THEN "done"
              ELSE "commit"]
  /\ UNCHANGED <<storeVars, now, autoCommit, consumers, reg, prep, ful,
                 failures, deliveries>>

\* lines 357, 376, 395, 414, 429: consumer.commitMessageSync(message)
RouterCommit ==
  /\ rtr.pc = "commit"
  /\ rtr' = [rtr EXCEPT
       !.trace = Append(@, CommitEv(TRUE)),
       !.commits = @ + 1,
       !.pc = "done"]
  /\ UNCHANGED <<storeVars, now, autoCommit, consumers, reg, prep, ful, produced,
                 failures, deliveries>>

\* lines 437-440: the produce or the commit raises: log and rethrow
RouterThrows ==
  /\ rtr.pc \in {"produce", "commit"}
  /\ failures < MaxFailures
  /\ failures' = failures + 1
  /\ rtr' = [rtr EXCEPT
       !.trace = Append(@, IF rtr.pc = "commit" THEN CommitEv(FALSE)
                           ELSE Failed(rtr.out)),
       !.pc = "thrown"]
  /\ UNCHANGED <<storeVars, now, autoCommit, consumers, reg, prep, ful, produced,
                 deliveries>>

\* the callback returned true, or threw under auto-commit: the consumer moves
\* on
RouterReturn ==
  /\ \/ rtr.pc = "done"
     \/ rtr.pc = "thrown"
          /\ (rtr.commits > 0 \/ isConsumerAutoCommitEnabled("transfer"))
  /\ rtr' = IdleRtr
  /\ UNCHANGED <<storeVars, now, autoCommit, consumers, reg, prep, ful, produced,
                 failures, deliveries>>

\* the callback threw and the offset is uncommitted: the message is redelivered
RouterRedeliver ==
  /\ rtr.pc = "thrown"
  /\ rtr.commits = 0
  /\ ~isConsumerAutoCommitEnabled("transfer")
  /\ rtr' = RouterBegin(rtr.msg)
  /\ UNCHANGED <<storeVars, now, autoCommit, consumers, reg, prep, ful, produced,
                 failures, deliveries>>

\* ---------------------------------------------------------- handler registrar
\* the participant lists: the argument of registerPrepareHandlers and the
\* answer of DAO.retrieveAllParticipants
NameLists ==
  {<<>>, <<"dfspA">>, <<"dfspB">>, <<"dfspA", "dfspB">>, <<"dfspB", "dfspA">>}

IdleReg ==
  [pc |-> "idle", entry |-> "", list |-> <<>>, names |-> <<>>,
   retrieved |-> FALSE, created |-> <<>>, prepareResult |-> "none",
   result |-> "none", failedAt |-> ""]

\* RegisterAllSteps with the last two registrations exchanged
RegisterAllSteps_TransferFirst == <<"prepare", "transfer", "fulfil">>

\* lines 559-561: the registrations of registerAllHandlers, in order
RegisterAllSteps == <<"prepare", "fulfil", "transfer">>

\* lines 559-562: what follows a registration of registerAllHandlers
StepAfter(step) ==
  LET i == CHOOSE k \in 1..Len(RegisterAllSteps) : RegisterAllSteps[k] = step
  IN  IF i < Len(RegisterAllSteps) THEN RegisterAllSteps[i + 1] ELSE "done"

\* lines 540, 542 and 559-560: registerPrepareHandlers returns; its caller
\* registerAllHandlers drops the value and goes on
PrepareReturns(r, value) ==
  LET next == IF r.entry = "all" THEN StepAfter("prepare") ELSE "done"
  IN  [r EXCEPT !.prepareResult = value, !.pc = next,
                !.result = IF next = "done" THEN value ELSE "none"]

\* lines 525-532: the list given, or else the list of the store
RegisterPrepareBegin(entry, participantNames) ==
  IF Len(participantNames) > 0
    THEN [IdleReg EXCEPT !.entry = entry, !.list = participantNames,
                         !.names = participantNames, !.pc = "createPrepare"]
  ELSE [IdleReg EXCEPT !.entry = entry, !.pc = "retrieve"]

\* line 557-559: registerAllHandlers() calls registerPrepareHandlers()
RegisterAllHandlers ==
  /\ reg.pc = "idle"
  /\ reg' = RegisterPrepareBegin("all", <<>>)
  /\ UNCHANGED <<storeVars, now, autoCommit, consumers, prep, ful, rtr,
                 produced, failures, deliveries>>

\* line 525: registerPrepareHandlers(participantNames) called on its own
RegisterPrepareHandlers ==
  /\ reg.pc = "idle"
  /\ \E participantNames \in NameLists :
       reg' = RegisterPrepareBegin("prepare", participantNames)
  /\ UNCHANGED <<storeVars, now, autoCommit, consumers, prep, ful, rtr,
                 produced, failures, deliveries>>

\* lines 531-541: DAO.retrieveAllParticipants() and the test of the list
RegisterRetrieve ==
  /\ reg.pc = "retrieve"
  /\ \E participantNamesList \in NameLists :
       reg' = IF Len(participantNamesList) # 0
                THEN [reg EXCEPT !.retrieved = TRUE,
                                 !.list = participantNamesList,
                                 !.names = participantNamesList,
                                 !.pc = "createPrepare"]
              ELSE PrepareReturns([reg EXCEPT !.retrieved = TRUE], "false")
  /\ UNCHANGED <<storeVars, now, autoCommit, consumers, prep, ful, rtr,
                 produced, failures, deliveries>>

\* lines 534-537, 542 and 452-461: createPrepareHandler(name) for the next name
RegisterCreatePrepare ==
  /\ reg.pc = "createPrepare"
  /\ LET topicName ==
           transformAccountToTopicName(Head(reg.names), "transfer", "prepare")
         r == [reg EXCEPT !.created = Append(@, topicName),
                          !.names = Tail(@)]
     IN  /\ consumers' = consumers \cup {topicName}
         /\ reg' = IF Tail(reg.names) = <<>> THEN PrepareReturns(r, "true")
                   ELSE r
  /\ UNCHANGED <<storeVars, now, autoCommit, prep, ful, rtr, produced,
                 failures, deliveries>>

\* the registration of a general topic returns (lines 485, 509): the next
\* registration of registerAllHandlers, or its return true (line 562)
RegisterGeneral(r, step, topicName) ==
  [r EXCEPT !.created = Append(@, topicName),
            !.pc = StepAfter(step),
            !.result = IF StepAfter(step) = "done" THEN "true" ELSE "none"]

\* lines 500-509: registerFulfilHandler()
RegisterFulfilHandler ==
  /\ reg.pc = "fulfil"
  /\ LET topicName == transformGeneralTopicName("transfer", "fulfil")
     IN  /\ consumers' = consumers \cup {topicName}
         /\ reg' = RegisterGeneral(reg, "fulfil", topicName)
  /\ UNCHANGED <<storeVars, now, autoCommit, prep, ful, rtr, produced,
                 failures, deliveries>>

\* lines 476-485: registerTransferHandler()
RegisterTransferHandler ==
  /\ reg.pc = "transfer"
  /\ LET topicName == transformGeneralTopicName("transfer", "transfer")
     IN  /\ consumers' = consumers \cup {topicName}
         /\ reg' = RegisterGeneral(reg, "transfer", topicName)
  /\ UNCHANGED <<storeVars, now, autoCommit, prep, ful, rtr, produced,
                 failures, deliveries>>

\* lines 462-465, 486-489, 510-513, 543-546, 563-565: the store's participant
\* list or Kafka.Consumer.createHandler raises: every level logs and rethrows
RegisterThrows ==
  /\ reg.pc \in {"retrieve", "createPrepare", "fulfil", "transfer"}
  /\ failures < MaxFailures
  /\ failures' = failures + 1
  /\ reg' = [reg EXCEPT !.pc = "thrown", !.result = "thrown",
                        !.failedAt = reg.pc]
  /\ UNCHANGED <<storeVars, now, autoCommit, consumers, prep, ful, rtr,
                 produced, deliveries>>


\* ------------------------------------------------ environment of the handlers
\* the position subsystem reserves the payer's position: RECEIVED -> RESERVED
PositionReserve(t) ==
  /\ transfers[t].exists
  /\ transfers[t].transferState = "RECEIVED"
  /\ transfers' = [transfers EXCEPT ![t].transferState = "RESERVED"]
  /\ UNCHANGED <<hashes, errorLog, now, autoCommit, consumers, reg, rtr, prep, ful,
                 produced, failures, deliveries>>

\* the clock read by `new Date()`
Tick ==
  /\ now < MaxTime
  /\ now' = now + 1
  /\ UNCHANGED <<storeVars, autoCommit, consumers, reg, rtr, prep, ful, produced,
                 failures, deliveries>>

\* ------------------------------------------------------------ specification
HandlerKinds == {"prepare", "fulfil"}

Init ==
  /\ hashes = [t \in TransferIds |-> NoHash]
  /\ transfers = [t \in TransferIds |-> NoTransfer]
  /\ errorLog = [t \in TransferIds |-> {}]
  /\ now = 0
  /\ autoCommit \in [HandlerKinds -> BOOLEAN]
  /\ consumers = AllTopics
  /\ prep = [w \in Participants |-> IdlePrep]
  /\ ful = IdleFul
  /\ rtr = IdleRtr
  /\ reg = IdleReg
  /\ produced = EmptyBag
  /\ failures = 0
  /\ deliveries = 0

PrepareStep(w) ==
  \/ PrepareDeliver(w)
  \/ PrepareDupCheck(w)
  \/ PrepareCommit(w)
  \/ PrepareGetState(w)
  \/ PrepareGetById(w)
  \/ PrepareStore(w)
  \/ PrepareStoreRaises(w)
  \/ PrepareLogError(w)
  \/ PrepareProduce(w)
  \/ PrepareThrows(w)
  \/ PrepareReturn(w)
  \/ PrepareRedeliver(w)

FulfilStep ==
  \/ FulfilDeliver
  \/ FulfilGetById
  \/ FulfilStoreFulfil
  \/ FulfilStoreReject
  \/ FulfilCommit
  \/ FulfilProduce
  \/ FulfilThrows
  \/ FulfilReturn
  \/ FulfilRedeliver

EnvStep ==
  \/ \E t \in TransferIds : PositionReserve(t)
  \/ Tick

Next ==
  \/ \E w \in PrepareWorkers : PrepareStep(w)
  \/ FulfilStep
  \/ EnvStep

Spec == Init /\ [][Next]_vars

\* the router alone: the consumer of the shared TRANSFER topic
RouterKinds == {"transfer"}

RouterInit ==
  /\ hashes = [t \in TransferIds |-> NoHash]
  /\ transfers = [t \in TransferIds |-> NoTransfer]
  /\ errorLog = [t \in TransferIds |-> {}]
  /\ now = 0
  /\ autoCommit \in [RouterKinds -> BOOLEAN]
  /\ consumers = AllTopics
  /\ prep = [w \in Participants |-> IdlePrep]
  /\ ful = IdleFul
  /\ rtr = IdleRtr
  /\ reg = IdleReg
  /\ produced = EmptyBag
  /\ failures = 0
  /\ deliveries = 0

RouterNext ==
  \/ RouterDeliver
  \/ RouterProduce
  \/ RouterCommit
  \/ RouterThrows
  \/ RouterReturn
  \/ RouterRedeliver

RouterSpec == RouterInit /\ [][RouterNext]_vars

\* one prepare worker per participant topic, running concurrently against the
\* one store
ConcurrentNext ==
  \/ \E w \in Participants : PrepareStep(w)
  \/ EnvStep

ConcurrentSpec == Init /\ [][ConcurrentNext]_vars

\* the registrar alone, from a process with no consumer
RegisterInit ==
  /\ hashes = [t \in TransferIds |-> NoHash]
  /\ transfers = [t \in TransferIds |-> NoTransfer]
  /\ errorLog = [t \in TransferIds |-> {}]
  /\ now = 0
  /\ autoCommit \in [HandlerKinds \cup RouterKinds -> BOOLEAN]
  /\ consumers = {}
  /\ prep = [w \in Participants |-> IdlePrep]
  /\ ful = IdleFul
  /\ rtr = IdleRtr
  /\ reg = IdleReg
  /\ produced = EmptyBag
  /\ failures = 0
  /\ deliveries = 0

RegisterNext ==
  \/ RegisterAllHandlers
  \/ RegisterPrepareHandlers
  \/ RegisterRetrieve
  \/ RegisterCreatePrepare
  \/ RegisterFulfilHandler
  \/ RegisterTransferHandler
  \/ RegisterThrows

RegisterSpec == RegisterInit /\ [][RegisterNext]_vars


\* ------------------------------------------------------- reading the traces
IsProduced(e) == e.op = "produce" /\ e.ok

IsProduceCall(e) == e.op = "produce"

IsPositionCall(e) == e.op = "produce" /\ e.type = "position"

IsStorePrepareCall(e) == e.op = "store" /\ e.type = "prepare"

IsCommitCall(e) == e.op = "commit"

IsCommitted(e) == e.op = "commit" /\ e.ok

IsFailedStoreCall(e) == e.op = "store" /\ ~e.ok

\* the messages an invocation has produced, in order
Produces(trace) == SelectSeq(trace, IsProduced)

\* the number of POSITION messages with this action on the position topics
PositionCount(action) ==
  LET msgs == {m \in BagToSet(produced) : m.action = action}
      RECURSIVE Sum(_)
      Sum(S) == IF S = {} THEN 0
                ELSE LET m == CHOOSE x \in S : TRUE
                     IN  CopiesIn(m, produced) + Sum(S \ {m})
  IN  Sum(msgs)

\* the duplicate check of this invocation has answered
Classified(w) ==
  /\ Len(prep[w].trace) >= 1
  /\ prep[w].trace[1].type = "validateDuplicateHash"
  /\ prep[w].trace[1].ok

\* ------------------------------------------------------------------ claims

C2_FingerprintDiscrimination ==
  \A w \in Participants :
    (Classified(w) /\ prep[w].existsNotMatching /\ ~prep[w].existsMatching) =>
      /\ SelectSeq(prep[w].trace, IsStorePrepareCall) = <<>>
      /\ SelectSeq(prep[w].trace, IsPositionCall) = <<>>
      /\ prep[w].pc \notin {"validate", "logError", "getState", "getById"}
      /\ prep[w].pc = "done" =>
           Produces(prep[w].trace)
             = <<NotifyFailure("prepare", errorModifiedReqCode)>>

C2_Witness ==
  \E w \in Participants :
    /\ prep[w].pc = "done"
    /\ prep[w].existsNotMatching
    /\ Produces(prep[w].trace) = <<NotifyFailure("prepare", 3106)>>
    /\ transfers[prep[w].msg.payload.transferId].exists


\* the fulfil invocation in progress has passed the duplicate-free checks of
\* lines 245-277 in fact: the transfer it read exists, is RESERVED, and the
\* message's fulfilment hashes to the stored condition
FulfilChecksHold ==
  /\ ful.existing.exists
  /\ ful.existing.transferState = "RESERVED"
  /\ Sha256(ful.msg.fulfilment) = ful.existing.condition

IsStoreFulfilCall(e) == e.op = "store" /\ e.type = "fulfil"

IsPositionCommitCall(e) ==
  e.op = "produce" /\ e.type = "position" /\ e.action = "commit"

C3_ReachedOnlyChecked ==
  /\ (ful.pc = "store" /\ ful.msg.action = "commit") => FulfilChecksHold
  /\ SelectSeq(ful.trace, IsStoreFulfilCall) # <<>> => FulfilChecksHold
  /\ SelectSeq(ful.trace, IsPositionCommitCall) # <<>> => FulfilChecksHold

C3_CommitStep ==
  \A t \in TransferIds :
    (transfers'[t].transferState = "COMMITTED"
       /\ transfers[t].transferState # "COMMITTED") =>
      /\ transfers[t].transferState = "RESERVED"
      /\ ful.pc = "store" /\ ful.msg.id = t /\ ful.msg.action = "commit"
      /\ Sha256(ful.msg.fulfilment) = transfers[t].condition

\* C3: a transfer becomes COMMITTED only from RESERVED, in a step of the fulfil
\* handler whose message carries a fulfilment that hashes to the stored
\* condition; store fulfil and the POSITION(commit) produce are reached only by
\* an invocation that read the transfer as RESERVED with a matching fulfilment.
C3_FulfilmentSoundness == []C3_ReachedOnlyChecked /\ [][C3_CommitStep]_vars

C3_Witness ==
  /\ ful.pc = "done"
  /\ ful.msg.action = "commit"
  /\ transfers[ful.msg.id].transferState = "COMMITTED"
  /\ Produces(ful.trace) = <<PositionMsg("dfspB", "commit")>>

C4_NoLateCommit ==
  \A t \in TransferIds :
    (transfers'[t].transferState = "COMMITTED"
       /\ transfers[t].transferState # "COMMITTED") =>
      transfers[t].expirationDate > now

C4_NoLatePosition ==
  (ful.pc = "produce" /\ ful'.pc = "done" /\ IsPositionCommitCall(ful.out)) =>
     ful.existing.expirationDate > now

C4_LateFulfilFails ==
  (ful.pc = "done" /\ FulfilChecksHold
     /\ ful.existing.expirationDate <= ful.checkedAt) =>
    Produces(ful.trace) = <<NotifyFailure("commit", errorTransferExpCode)>>

\* C4: no transfer becomes COMMITTED at or after its expirationDate, no
\* POSITION(commit) is produced at or after it, and a fulfil with the matching
\* fulfilment for a RESERVED transfer read at or after its expirationDate
\* produces the NOTIFICATION failure 3303.
C4_ExpirySafety ==
  /\ [][C4_NoLateCommit]_vars
  /\ [][C4_NoLatePosition]_vars
  /\ []C4_LateFulfilFails

C5_FinalStays ==
  \A t \in TransferIds :
    transfers[t].transferState \in FinalStates =>
      transfers'[t].transferState = transfers[t].transferState

\* C5: once a transfer is COMMITTED or ABORTED no step of any handler changes
\* its transferState.
C5_StateMonotonicity == [][C5_FinalStays]_vars

C5_Witness ==
  /\ ful.pc = "done"
  /\ FulfilAccepts(ful.msg)
  /\ Sha256(ful.msg.fulfilment) = ful.existing.condition
  /\ ful.existing.transferState \in FinalStates
  /\ transfers[ful.msg.id].transferState = ful.existing.transferState

\* the fulfil invocation was for a transfer it read as COMMITTED or ABORTED
FulfilForFinal ==
  /\ ful.pc = "done"
  /\ FulfilAccepts(ful.msg)
  /\ ful.existing.exists
  /\ ful.existing.transferState \in FinalStates

\* C6 (as stated): a commit or reject FULFIL for a COMMITTED or ABORTED
\* transfer produces the NOTIFICATION failure 2001, whatever its fulfilment.
C6_FinalAlways2001 ==
  FulfilForFinal =>
    Produces(ful.trace) = <<NotifyFailure("commit", errorInternalCode)>>

\* C6 (amended): a commit or reject FULFIL for a COMMITTED or ABORTED transfer
\* produces the NOTIFICATION failure 2001 when its fulfilment hashes to the
\* stored condition, and the NOTIFICATION failure 3106 when it does not.
C6_Final2001UnlessMismatch ==
  FulfilForFinal =>
    Produces(ful.trace) =
      <<NotifyFailure("commit",
          IF Sha256(ful.msg.fulfilment) = ful.existing.condition
            THEN errorInternalCode ELSE errorModifiedReqCode)>>

C6_Witness ==
  /\ FulfilForFinal
  /\ ful.existing.transferState = "COMMITTED"
  /\ Sha256(ful.msg.fulfilment) = ful.existing.condition
  /\ Produces(ful.trace) = <<NotifyFailure("commit", 2001)>>

\* the consumer will not deliver the invocation's message again: the callback
\* returned, or it threw after committing the offset
PrepareSettled(w) ==
  \/ prep[w].pc = "done"
  \/ prep[w].pc = "thrown" /\ prep[w].commits > 0

FulfilSettled ==
  \/ ful.pc = "done"
  \/ ful.pc = "thrown" /\ ful.commits > 0

\* C7: in manual-commit mode every consumed prepare or fulfil message that
\* dictates a downstream event and will not be delivered again has had a
\* message produced, and a fulfil that committed the transfer has had its
\* POSITION(commit) produced.
C7_AtLeastOnce ==
  /\ \A w \in Participants :
       (~autoCommit["prepare"] /\ PrepareSettled(w)
          /\ prep[w].path \notin {"NO_CONSUMER", "IN_FLIGHT", "BUS_ERROR"}) =>
         Produces(prep[w].trace) # <<>>
  /\ (~autoCommit["fulfil"] /\ FulfilSettled
        /\ ful.path \notin {"NO_CONSUMER", "BUS_ERROR"}) =>
       Produces(ful.trace) # <<>>
  /\ (~autoCommit["fulfil"] /\ FulfilSettled
        /\ \E i \in 1..Len(ful.trace) :
             IsStoreFulfilCall(ful.trace[i]) /\ ful.trace[i].ok) =>
       PositionCount("commit") >= 1

\* C8: an invocation that ended in an uncaught error has not committed the
\* offset of its message.
C8_ThrownUncommitted ==
  /\ \A w \in Participants : prep[w].pc = "thrown" => prep[w].commits = 0
  /\ ful.pc = "thrown" => ful.commits = 0

\* what becomes of an invocation in which a store call raised
StoreErrorConverted(kind, w) ==
  LET tr == IF kind = "prepare" THEN prep[w].trace ELSE ful.trace
      pc == IF kind = "prepare" THEN prep[w].pc ELSE ful.pc
      commits == IF kind = "prepare" THEN prep[w].commits ELSE ful.commits
      code == tr[Len(tr)].code
  IN  SelectSeq(tr, IsFailedStoreCall) # <<>> =>
        /\ ~(pc = "thrown" /\ IsFailedStoreCall(tr[Len(tr)]))
        /\ pc = "done" =>
             /\ IsProduced(tr[Len(tr)]) /\ code = errorInternalCode
             /\ autoCommit[kind] \/ commits > 0

\* C9: a store call that raised while handling a prepare or fulfil message
\* is never what makes the handler throw; the invocation goes on to commit the
\* offset (manual mode) and to produce the NOTIFICATION failure 2001.
C9_StoreErrorsConverted ==
  /\ \A w \in Participants : StoreErrorConverted("prepare", w)
  /\ StoreErrorConverted("fulfil", "dfspA")

\* a prepare invocation classified NEW: the duplicate check answered with
\* neither existsMatching nor existsNotMatching
ClassifiedNew(w) ==
  Classified(w) /\ ~prep[w].existsMatching /\ ~prep[w].existsNotMatching

\* C10: a prepare classified NEW calls store prepare exactly once, with the
\* valid flag equal to the validation result, as its first call after the
\* duplicate check: before any commit and any produce.
C10_AuditCompleteness ==
  \A w \in Participants :
    ClassifiedNew(w) =>
      LET tr == prep[w].trace
      IN  /\ prep[w].pc = "validate" => Len(tr) = 1
          /\ prep[w].pc # "validate" =>
               /\ Len(tr) >= 2
               /\ IsStorePrepareCall(tr[2])
               /\ tr[2].action =
                    (IF validateByName(prep[w].msg.payload).validationPassed
                       THEN "valid" ELSE "invalid")
               /\ Len(SelectSeq(tr, IsStorePrepareCall)) = 1
               /\ tr[2].ok =>
                    transfers[prep[w].msg.payload.transferId].valid =
                      validateByName(prep[w].msg.payload).validationPassed

C10_Witness ==
  \E w \in Participants :
    /\ ClassifiedNew(w)
    /\ prep[w].pc = "done"
    /\ prep[w].trace[2] = StoreEv("prepare", "invalid", TRUE)
    /\ ~transfers[prep[w].msg.payload.transferId].valid
    /\ prep[w].commits = 1

\* the fulfil invocation has returned, its message was a commit or a reject
\* and the transfer it read exists
FulfilForExisting ==
  /\ ful.pc = "done"
  /\ ful.msg.type = "fulfil" /\ ful.msg.action \in {"commit", "reject"}
  /\ ful.existing.exists

\* C11: for an existing transfer the fulfil checks are ordered: a fulfilment
\* that does not hash to the stored condition yields the NOTIFICATION failure
\* 3106 whatever the state and the expirationDate; a matching fulfilment for a
\* transfer that is not RESERVED yields the failure 2001 whatever the
\* expirationDate; only a matching fulfilment for a RESERVED transfer read at
\* or after its expirationDate yields the failure 3303.
C11_ChecksOrdered ==
  FulfilForExisting =>
    LET match == Sha256(ful.msg.fulfilment) = ful.existing.condition
        reserved == ful.existing.transferState = "RESERVED"
        expired == ful.existing.expirationDate <= ful.checkedAt
    IN  /\ ~match =>
             Produces(ful.trace)
               = <<NotifyFailure("commit", errorModifiedReqCode)>>
        /\ (match /\ ~reserved) =>
             Produces(ful.trace) = <<NotifyFailure("commit", errorInternalCode)>>
        /\ (match /\ reserved /\ expired) =>
             Produces(ful.trace)
               = <<NotifyFailure("commit", errorTransferExpCode)>>
        /\ (match /\ reserved /\ ~expired) =>
             \A i \in 1..Len(ful.trace) : ful.trace[i].type # "notification"

\* a forged fulfilment against an expired transfer that is not RESERVED
C11_Witness ==
  /\ FulfilForExisting
  /\ Sha256(ful.msg.fulfilment) # ful.existing.condition
  /\ ful.existing.transferState # "RESERVED"
  /\ ful.existing.expirationDate <= ful.checkedAt
  /\ Produces(ful.trace) = <<NotifyFailure("commit", 3106)>>

IsStoreCall(e) == e.op = "store"

\* the store calls that decide the outcome of a message: the duplicate check
\* and the state-writing calls of prepare, and the read and the state-writing
\* calls of fulfil
IsDecidingStoreCall(kind, e) ==
  /\ e.op = "store"
  /\ \/ e.type \in {"validateDuplicateHash", "prepare", "fulfil", "reject"}
     \/ kind = "fulfil" /\ e.type = "getById"

\* before every produce call of the trace there is a commit that follows
\* every call of the trace satisfying Ordered
CommitBetween(tr, Ordered(_)) ==
  \A j \in 1..Len(tr) :
    IsProduceCall(tr[j]) =>
      \E i \in 1..(j - 1) :
        /\ IsCommitted(tr[i])
        /\ \A k \in 1..Len(tr) : Ordered(tr[k]) => k < i

\* C12 (as stated): in manual-commit mode, before every produce call of a
\* prepare or fulfil invocation commitMessageSync has been called, after
\* every store call of the invocation.
C12_CommitAfterEveryStoreCall ==
  /\ \A w \in Participants :
       ~autoCommit["prepare"] => CommitBetween(prep[w].trace, IsStoreCall)
  /\ ~autoCommit["fulfil"] => CommitBetween(ful.trace, IsStoreCall)

\* C12 (amended): in manual-commit mode, before every produce call of a
\* prepare or fulfil invocation commitMessageSync has been called, after the
\* duplicate check and the state-writing store call (prepare, fulfil, reject)
\* of the invocation and after the read of fulfil; the reads of the
\* matching-duplicate path and logTransferError follow the commit.
C12_CommitAfterStoreWrite ==
  /\ \A w \in Participants :
       ~autoCommit["prepare"] =>
         /\ CommitBetween(prep[w].trace,
                          LAMBDA e : IsDecidingStoreCall("prepare", e))
         /\ \A k \in 1..Len(prep[w].trace) :
              (prep[w].trace[k].type
                 \in {"getTransferStateChange", "getById", "logTransferError"})
                => \E i \in 1..(k - 1) : IsCommitted(prep[w].trace[i])
  /\ ~autoCommit["fulfil"] =>
       CommitBetween(ful.trace, LAMBDA e : IsDecidingStoreCall("fulfil", e))

\* a prepare that failed validation: stored, committed, logged, notified
C12_Witness ==
  \E w \in Participants :
    /\ ~autoCommit["prepare"]
    /\ prep[w].pc = "done"
    /\ prep[w].trace =
         <<StoreEv("validateDuplicateHash", "", TRUE),
           StoreEv("prepare", "invalid", TRUE), CommitEv(TRUE),
           StoreEv("logTransferError", "", TRUE),
           NotifyFailure("prepare", 3100)>>

\* the states the duplicate classification of lines 128 and 137 knows
KnownStates == {"RECEIVED", "RESERVED", "COMMITTED", "ABORTED"}

\* the invocation is for a matching duplicate and has read a stored state that
\* is null or none of the known states
ReadUnknownState(w) ==
  /\ Classified(w)
  /\ prep[w].existsMatching
  /\ \E i \in 1..Len(prep[w].trace) :
       /\ prep[w].trace[i].type = "getTransferStateChange"
       /\ prep[w].trace[i].ok
       /\ prep[w].trace[i].action \notin KnownStates

\* C13: a matching duplicate prepare whose stored state is null or none of
\* RECEIVED, RESERVED, COMMITTED, ABORTED does not run validation, does not
\* call store prepare, does not produce to POSITION, and when the handler
\* returns it has produced exactly the NOTIFICATION failure 3100.
C13_DuplicateAnomaly ==
  \A w \in Participants :
    ReadUnknownState(w) =>
      /\ prep[w].pc \notin {"validate", "logError"}
      /\ SelectSeq(prep[w].trace, IsStorePrepareCall) = <<>>
      /\ SelectSeq(prep[w].trace, IsPositionCall) = <<>>
      /\ prep[w].pc = "done" =>
           Produces(prep[w].trace)
             = <<NotifyFailure("prepare", errorGenericCode)>>

\* the invocation is for a matching duplicate and has read a stored state in S
ReadState(w, S) ==
  /\ Classified(w)
  /\ prep[w].existsMatching
  /\ \E i \in 1..Len(prep[w].trace) :
       /\ prep[w].trace[i].type = "getTransferStateChange"
       /\ prep[w].trace[i].ok
       /\ prep[w].trace[i].action \in S

\* the calls of a finalized replay that has returned
FinalizedReplayTrace(st, snapshot) ==
  <<StoreEv("validateDuplicateHash", "", TRUE)>>
    \o (IF autoCommit["prepare"] THEN <<>> ELSE <<CommitEv(TRUE)>>)
    \o <<StoreEv("getTransferStateChange", st, TRUE),
          StoreEv("getById", "", TRUE),
          NotifySuccess("prepare-duplicate", snapshot)>>

\* C14: a matching duplicate prepare for a COMMITTED or ABORTED transfer
\* calls neither store prepare nor logTransferError and produces nothing to
\* POSITION; when the handler returns its calls were the duplicate check, the
\* commit (manual-commit mode), the two reads and one NOTIFICATION produce
\* with action prepare-duplicate, status success and the stored transfer as
\* payload.
C14_FinalizedReplay ==
  \A w \in Participants :
    ReadState(w, FinalStates) =>
      LET t == prep[w].msg.payload.transferId
      IN  /\ prep[w].pc \notin {"validate", "logError"}
          /\ SelectSeq(prep[w].trace, IsStorePrepareCall) = <<>>
          /\ SelectSeq(prep[w].trace, IsPositionCall) = <<>>
          /\ prep[w].pc = "done" =>
               /\ prep[w].trace =
                    FinalizedReplayTrace(transfers[t].transferState,
                                         transfers[t].transferState)
               /\ prep[w].commits = IF autoCommit["prepare"] THEN 0 ELSE 1

C14_Witness ==
  \E w \in Participants :
    /\ ReadState(w, FinalStates)
    /\ prep[w].pc = "done"
    /\ ~autoCommit["prepare"]
    /\ prep[w].commits = 1
    /\ Produces(prep[w].trace) = <<NotifySuccess("prepare-duplicate", "ABORTED")>>

InFlightStates == {"RECEIVED", "RESERVED"}

\* the calls of an in-flight duplicate that has returned
InFlightTrace(st) ==
  <<StoreEv("validateDuplicateHash", "", TRUE)>>
    \o (IF autoCommit["prepare"] THEN <<>> ELSE <<CommitEv(TRUE)>>)
    \o <<StoreEv("getTransferStateChange", st, TRUE)>>

C15_Returned ==
  \A w \in Participants :
    ReadState(w, InFlightStates) =>
      /\ prep[w].pc = "done"
      /\ \E st \in InFlightStates : prep[w].trace = InFlightTrace(st)
      /\ prep[w].commits = IF autoCommit["prepare"] THEN 0 ELSE 1

\* the steps of a matching duplicate up to its state read: the duplicate
\* check, the commit of line 114 and getTransferStateChange
C15_Step ==
  \A w \in Participants :
    (prep[w].pc \in {"dupcheck", "commit", "getState"}
       /\ prep'[w] # prep[w]
       /\ prep'[w].existsMatching
       /\ prep'[w].pc \in {"commit", "getState", "done"}) =>
      UNCHANGED <<hashes, transfers, errorLog, produced>>

\* C15: a matching duplicate prepare for a RECEIVED or RESERVED transfer
\* returns after the duplicate check, the commit (manual-commit mode) and the
\* state read, and these steps leave the fingerprints, the transfers, the
\* transfer-error log and the POSITION topics unchanged; it produces nothing.
C15_InFlightNoOp == []C15_Returned /\ [][C15_Step]_vars

C15_Witness ==
  \E w \in Participants :
    /\ ReadState(w, {"RESERVED"})
    /\ prep[w].pc = "done"
    /\ prep[w].commits = 1
    /\ Produces(prep[w].trace) = <<>>

\* store prepare has been called by the invocation and has succeeded
StoredByInvocation(w) ==
  \E i \in 1..Len(prep[w].trace) :
    IsStorePrepareCall(prep[w].trace[i]) /\ prep[w].trace[i].ok

\* C16: every POSITION produce call of the prepare handler is
\* POSITION(prepare) to the payload's payerFsp, made for a message classified
\* NEW that passed validation, after store prepare succeeded; a returned NEW
\* invocation that passed validation and stored has produced exactly that
\* message; a returned NEW invocation that failed validation and stored has
\* logged the transfer error 3100 and produced exactly the NOTIFICATION
\* failure 3100.
C16_PositionIffNewValidStored ==
  \A w \in Participants :
    LET tr == prep[w].trace
        payload == prep[w].msg.payload
        pass == validateByName(payload).validationPassed
    IN  /\ \A j \in 1..Len(tr) :
             IsPositionCall(tr[j]) =>
               /\ ClassifiedNew(w) /\ pass
               /\ \E i \in 1..(j - 1) : IsStorePrepareCall(tr[i]) /\ tr[i].ok
               /\ tr[j].action = "prepare" /\ tr[j].to = payload.payerFsp
        /\ (prep[w].pc = "done" /\ ClassifiedNew(w) /\ StoredByInvocation(w)) =>
             IF pass
               THEN Produces(tr) = <<PositionMsg(payload.payerFsp, "prepare")>>
               ELSE /\ Produces(tr)
                         = <<NotifyFailure("prepare", errorGenericCode)>>
                    /\ \E i \in 1..Len(tr) :
                         tr[i] = StoreEv("logTransferError", "", TRUE)
                    /\ errorGenericCode \in errorLog[payload.transferId]
        /\ (prep[w].pc = "done" /\ ~(ClassifiedNew(w) /\ pass
                                       /\ StoredByInvocation(w))) =>
             SelectSeq(tr, IsPositionCall) = <<>>

C16_Witness ==
  \E w \in Participants :
    /\ prep[w].pc = "done"
    /\ ClassifiedNew(w)
    /\ prep[w].msg.payload.amount = 100
    /\ StoredByInvocation(w)
    /\ prep[w].trace[Len(prep[w].trace)] = PositionMsg("dfspA", "prepare")
    /\ errorLog[prep[w].msg.payload.transferId] = {}

\* the fulfil invocation read a transfer that passes every check of lines
\* 245-277 for its commit or reject message
FulfilPassesChecks ==
  /\ ful.msg.type = "fulfil" /\ ful.msg.action \in {"commit", "reject"}
  /\ FulfilChecksHold
  /\ ful.existing.expirationDate > ful.checkedAt

\* the calls of a fulfil that passed the checks and has returned
FulfilSuccessTrace(call, to, action) ==
  <<StoreEv("getById", "", TRUE), StoreEv(call, "", TRUE)>>
    \o (IF autoCommit["fulfil"] THEN <<>> ELSE <<CommitEv(TRUE)>>)
    \o <<PositionMsg(to, action)>>

C17_Returned ==
  (FulfilPassesChecks /\ ful.pc = "done") =>
    IF ful.msg.action = "commit"
      THEN /\ ful.trace = FulfilSuccessTrace("fulfil", ful.existing.payeeFsp,
                                              "commit")
           /\ transfers[ful.msg.id].transferState = "COMMITTED"
      ELSE /\ ful.trace = FulfilSuccessTrace("reject", ful.existing.payerFsp,
                                              "reject")
           /\ transfers[ful.msg.id].transferState = "ABORTED"

\* the store call of a fulfil that passed the checks
C17_StoreStep ==
  (FulfilPassesChecks /\ ful.pc = "store" /\ ful'.pc \in {"commit", "produce"}) =>
    /\ transfers[ful.msg.id].transferState = "RESERVED"
    /\ transfers'[ful.msg.id].transferState =
         (IF ful.msg.action = "commit" THEN "COMMITTED" ELSE "ABORTED")

\* C17: a fulfil that passes all checks calls store fulfil (RESERVED to
\* COMMITTED) for action commit and store reject (RESERVED to ABORTED) for
\* action reject, and when it returns it has produced exactly one message:
\* POSITION(commit) to the stored payeeFsp, or POSITION(reject) to the stored
\* payerFsp, and no NOTIFICATION.
C17_FulfilSuccess == []C17_Returned /\ [][C17_StoreStep]_vars

C17_Witness ==
  /\ FulfilPassesChecks
  /\ ful.pc = "done"
  /\ ful.msg.action = "reject"
  /\ transfers[ful.msg.id].transferState = "ABORTED"
  /\ Produces(ful.trace) = <<PositionMsg("dfspA", "reject")>>

IsStoreRejectCall(e) == e.op = "store" /\ e.type = "reject"

\* the fulfil invocation has made its checks and its outcome is a failure:
\* invalid type or action, transfer not found, fulfilment mismatch, a state
\* other than RESERVED, or expired
FulfilFails ==
  /\ ful.path \notin {"", "BUS_ERROR", "NO_CONSUMER"}
  /\ \/ ~(ful.msg.type = "fulfil" /\ ful.msg.action \in {"commit", "reject"})
     \/ ~ful.existing.exists
     \/ Sha256(ful.msg.fulfilment) # ful.existing.condition
     \/ ful.existing.transferState # "RESERVED"
     \/ ful.existing.expirationDate <= ful.checkedAt

C18_NoStoreCall ==
  FulfilFails =>
    /\ ful.pc # "store"
    /\ SelectSeq(ful.trace, IsStoreFulfilCall) = <<>>
    /\ SelectSeq(ful.trace, IsStoreRejectCall) = <<>>
    /\ ful.pc = "done" =>
         /\ Len(Produces(ful.trace)) = 1
         /\ Produces(ful.trace)[1].type = "notification"
         /\ Produces(ful.trace)[1].status = "failure"

\* the steps of a failing fulfil, its read included
C18_Step ==
  (/\ ful' # ful
   /\ ful.pc = "getById" \/ FulfilFails
   /\ FulfilFails \/ FulfilFails') =>
    UNCHANGED <<hashes, transfers, errorLog>>

\* C18: a fulfil whose outcome is a failure never calls store fulfil or store
\* reject, its steps leave the store unchanged, and when it returns it has
\* produced one NOTIFICATION failure.
C18_FailureLeavesStore == []C18_NoStoreCall /\ [][C18_Step]_vars

\* an expired fulfil: failure 3303, the transfer stays RESERVED
C18_Witness ==
  /\ FulfilFails
  /\ ful.pc = "done"
  /\ FulfilChecksHold
  /\ Produces(ful.trace) = <<NotifyFailure("commit", 3303)>>
  /\ transfers[ful.msg.id].transferState = "RESERVED"

\* the fulfil invocation is for a message whose metadata is not type fulfil
\* with action commit or reject
FulfilViolation ==
  /\ ful.pc # "idle"
  /\ ful.path \notin {"BUS_ERROR", "NO_CONSUMER"}
  /\ ~(ful.msg.type = "fulfil" /\ ful.msg.action \in {"commit", "reject"})

C19_Handled ==
  FulfilViolation =>
    /\ ful.pc \notin {"getById", "store"}
    /\ SelectSeq(ful.trace, IsStoreCall) = <<>>
    /\ ful.existing = NoTransfer
    /\ ful.pc = "done" =>
         /\ ful.trace =
              (IF autoCommit["fulfil"] THEN <<>> ELSE <<CommitEv(TRUE)>>)
                \o <<NotifyFailure("commit", errorInternalCode)>>
         /\ ful.commits = IF autoCommit["fulfil"] THEN 0 ELSE 1

C19_Step ==
  (ful' # ful /\ (FulfilViolation \/ FulfilViolation')) =>
    UNCHANGED <<hashes, transfers, errorLog, produced>>

\* C19: a FULFIL-topic message whose metadata is not type fulfil with action
\* commit or reject makes no store call and its steps leave the store
\* unchanged; when the handler returns it has committed the offset
\* (manual-commit mode) and then produced exactly one NOTIFICATION failure
\* with code 2001.
C19_ProtocolViolation == []C19_Handled /\ [][C19_Step]_vars

C19_Witness ==
  /\ FulfilViolation
  /\ ful.pc = "done"
  /\ ful.msg.action = "abort"
  /\ ful.trace = <<CommitEv(TRUE), NotifyFailure("commit", 2001)>>
  /\ transfers[ful.msg.id].transferState = "RESERVED"

\* C20: a returned router invocation for a message whose status is success
\* and whose action is prepare, commit, reject, abort or timeout-reserved
\* (compared in lower case, as the router does) has produced exactly one
\* message, of type notification with the action of the incoming message; for
\* any other action/status combination it has produced nothing; the router
\* makes no store call.
C20_RouterForwarding ==
  /\ SelectSeq(rtr.trace, IsStoreCall) = <<>>
  /\ hashes = [t \in TransferIds |-> NoHash]
  /\ transfers = [t \in TransferIds |-> NoTransfer]
  /\ errorLog = [t \in TransferIds |-> {}]
  /\ (rtr.pc = "done" /\ rtr.path # "NO_CONSUMER") =>
       IF /\ toLowerCase(rtr.msg.status) = "success"
          /\ toLowerCase(rtr.msg.action)
               \in {"prepare", "commit", "reject", "abort", "timeout-reserved"}
         THEN /\ Len(Produces(rtr.trace)) = 1
              /\ Produces(rtr.trace)[1].type = "notification"
              /\ Produces(rtr.trace)[1].action = toLowerCase(rtr.msg.action)
         ELSE SelectSeq(rtr.trace, IsProduceCall) = <<>>

\* C21: in manual-commit mode every produce call of the router is preceded,
\* in the same invocation, by the commit of the consumed message's offset.
C21_RouterCommitsFirst ==
  ~autoCommit["transfer"] =>
    \A j \in 1..Len(rtr.trace) :
      IsProduceCall(rtr.trace[j]) =>
        \E i \in 1..(j - 1) : IsCommitted(rtr.trace[i])

\* ------------------------------------------------------------ C22: registrar
PrepareTopicsOf(list) ==
  [i \in 1..Len(list) |->
     transformAccountToTopicName(list[i], "transfer", "prepare")]

\* the consumers registerAllHandlers creates, in the order it creates them
ExpectedCreated ==
  PrepareTopicsOf(reg.list)
    \o (IF reg.entry = "all"
          THEN <<transformGeneralTopicName("transfer", "fulfil"),
                 transformGeneralTopicName("transfer", "transfer")>>
        ELSE <<>>)

IsPrefix(s, t) == Len(s) <= Len(t) /\ \A i \in 1..Len(s) : s[i] = t[i]

C22_Order ==
  /\ consumers = {reg.created[i] : i \in 1..Len(reg.created)}
  /\ IsPrefix(reg.created, ExpectedCreated)
  /\ (reg.entry = "all" /\ reg.pc = "done") =>
       (reg.created = ExpectedCreated /\ reg.result = "true")
  /\ reg.pc = "thrown" =>
       /\ reg.result = "thrown"
       /\ IF reg.failedAt = "retrieve" THEN reg.created = <<>>
          ELSE Len(reg.created) < Len(ExpectedCreated)

C22_EmptyList ==
  (reg.retrieved /\ reg.list = <<>>) =>
    /\ reg.prepareResult = "false"
    /\ reg.failedAt \notin {"retrieve", "createPrepare"}
    /\ \A p \in Participants :
         transformAccountToTopicName(p, "transfer", "prepare") \notin consumers
    /\ reg.entry = "prepare" => (reg.pc = "done" /\ reg.result = "false")

C22_Step ==
  /\ consumers \subseteq consumers'
  /\ reg.pc \in {"done", "thrown"} => consumers' = consumers
  /\ reg'.pc = "thrown" => consumers' = consumers

\* C22: the registrar creates the consumers in the order prepare topic per
\* participant (in list order), fulfil, transfer; a failure propagates, keeps
\* the consumers created before it and creates none after it; an empty
\* participant list is no error, creates no prepare consumer and makes
\* registerPrepareHandlers return false.
C22_RegistrationOrder ==
  [](C22_Order /\ C22_EmptyList) /\ [][C22_Step]_vars

\* a failure of the transfer registration after the prepare and fulfil
\* consumers were created: both stay registered
C22_Witness ==
  /\ reg.entry = "all"
  /\ reg.pc = "thrown"
  /\ reg.failedAt = "transfer"
  /\ Len(reg.created) = Len(reg.list) + 1
  /\ Len(reg.list) = 2
  /\ Cardinality(consumers) = 3

\* registerAllHandlers over an empty participant list returned true with the
\* fulfil and transfer consumers only
C22_EmptyWitness ==
  /\ reg.entry = "all"
  /\ reg.retrieved /\ reg.list = <<>>
  /\ reg.pc = "done"
  /\ Cardinality(consumers) = 2

\* ------------------------------------------------- C23: one commit at most
CommitCalls(trace) == Len(SelectSeq(trace, IsCommitCall))

OneCommitAtMost(kind, trace) ==
  kind \in DOMAIN autoCommit =>
    /\ CommitCalls(trace) <= 1
    /\ autoCommit[kind] => CommitCalls(trace) = 0

\* C23: an invocation of prepare, fulfil or transfer calls commitMessageSync
\* at most once for the message it consumed, on every path, and never when
\* the topic is in auto-commit mode.
C23_OneCommitAtMost ==
  /\ \A w \in Participants : OneCommitAtMost("prepare", prep[w].trace)
  /\ OneCommitAtMost("fulfil", ful.trace)
  /\ OneCommitAtMost("transfer", rtr.trace)

\* the same bound on every path but the fall-through of the duplicate branch
C23_WithoutUnknownState ==
  /\ \A w \in Participants :
       ~ReadUnknownState(w) => OneCommitAtMost("prepare", prep[w].trace)
  /\ \A w \in Participants :
       autoCommit["prepare"] => CommitCalls(prep[w].trace) = 0
  /\ OneCommitAtMost("fulfil", ful.trace)

\* ------------------------------------------- C24: a return means a commit
\* invocation h of a handler of the given kind, consuming from kafkaTopic,
\* has returned true in manual-commit mode with the consumer bound
ReturnedManual(kind, kafkaTopic, h) ==
  /\ kind \in DOMAIN autoCommit
  /\ ~autoCommit[kind]
  /\ kafkaTopic \in consumers
  /\ h.pc = "done"

HasCommitted(h) == \E i \in 1..Len(h.trace) : IsCommitted(h.trace[i])

C24_Prepare ==
  \A w \in Participants :
    ReturnedManual("prepare",
        transformAccountToTopicName(prep[w].msg.from, "transfer", "prepare"),
        prep[w])
      => HasCommitted(prep[w])

C24_Fulfil ==
  ReturnedManual("fulfil", transformGeneralTopicName("transfer", "fulfil"), ful)
    => HasCommitted(ful)

C24_Router ==
  ReturnedManual("transfer", transformGeneralTopicName("transfer", "transfer"),
                 rtr)
    => HasCommitted(rtr)

\* C24: in manual-commit mode with a consumer bound to the topic, every
\* invocation of prepare, fulfil or transfer that returns true has committed
\* the offset of the message it consumed, the router's unknown action/status
\* path included.
C24_ReturnMeansCommitted == C24_Prepare /\ C24_Fulfil /\ C24_Router

\* the same for the two handlers that commit before they produce
C24_PrepareAndFulfil == C24_Prepare /\ C24_Fulfil

\* the same for the router's forwarding branches
C24_RouterForwarded == RouterForwards(rtr.msg) => C24_Router

\* ------------------------------------ C25: two concurrent prepare workers
\* the workers whose running invocation carries the transferId t
WorkersOn(t) ==
  {w \in Participants :
     prep[w].pc # "idle" /\ prep[w].msg.payload.transferId = t}

StorePrepareCalls(w) == Len(SelectSeq(prep[w].trace, IsStorePrepareCall))

ProducedPosition(w) ==
  \E i \in 1..Len(prep[w].trace) :
    IsPositionCall(prep[w].trace[i]) /\ prep[w].trace[i].ok

ProducedFailure(w) ==
  \E i \in 1..Len(prep[w].trace) :
    /\ IsProduced(prep[w].trace[i])
    /\ prep[w].trace[i].type = "notification"
    /\ prep[w].trace[i].status = "failure"

C25_OneNew ==
  \A t \in TransferIds :
    Cardinality({w \in WorkersOn(t) : ClassifiedNew(w)}) <= 1

C25_OneStorePrepare ==
  \A t \in TransferIds :
    \A w1, w2 \in WorkersOn(t) :
      w1 # w2 => StorePrepareCalls(w1) = 0 \/ StorePrepareCalls(w2) = 0

C25_OnePosition == PositionCount("prepare") <= 1

C25_NoFailureForSuccess ==
  \A t \in TransferIds :
    \A w1, w2 \in WorkersOn(t) :
      (w1 # w2 /\ ClassifiedNew(w1) /\ ProducedPosition(w1)
         /\ Classified(w2) /\ prep[w2].existsMatching)
        => ~ProducedFailure(w2)

\* C25: when two prepare workers concurrently handle messages with the same
\* transferId, at most one is classified NEW, at most one store prepare and
\* one POSITION(prepare) produce occur, and the worker that sees the matching
\* duplicate emits no failure notification for a transfer that then succeeds.
C25_ConcurrentPrepare ==
  /\ C25_OneNew
  /\ C25_OneStorePrepare
  /\ C25_OnePosition
  /\ C25_NoFailureForSuccess

====
